---- MODULE Spec2Model ----
(***************************************************************************)
(* Model of 02-KG/rgcn-hetnet.ipynb: multi-relational link prediction on   *)
(* a heterogeneous graph with an RGCN encoder and a DistMult decoder.      *)
(*                                                                         *)
(* Floating-point values are pairs <<kind, v>> with kind "num", "inf" or   *)
(* "nan".  Losses are in hundredths of a nat, AUROC values in thousandths. *)
(* A probability is represented by its logit clipped to the range in which *)
(* float32 sigmoid is neither exactly 0.0 nor exactly 1.0.                 *)
(***************************************************************************)
EXTENDS Integers, Sequences, FiniteSets, TLC

\* ------------------------------------------------------------------ bounds
NumNodes == 2
MaxEdges == 3
MaxRelations == 2
Epochs == 1
NumSteps == 1
MaxLen == 7

Nodes == 0 .. (NumNodes - 1)
Masks == {"train", "val", "test"}
EmbVals == {-6, 0}
WVals == {-3, 3}

VARIABLES
  graph,              \* data: the loaded edge list, each edge [s, o, t, m]
  data_loader,        \* the batches the sampler built over data can yield
  w_rels,             \* model.w_rels, one weight per relation
  conv,               \* version of the conv1/conv2 weights
  opt_steps,          \* optimizer state: number of Adam steps taken
  pc, epoch, step,    \* position in the training cell / reporting cell
  batch,              \* the batch drawn from data_loader
  embed,              \* the embedding returned by get_embeddings
  scored,             \* locals of the last train/validation call
  loss_epoch_train, auroc_epoch_train, loss_epoch_val, auroc_epoch_val,
  loss_train_total, auroc_train_total, loss_val_total, auroc_val_total,
  auroc_edge_type,    \* relation -> list of per-relation AUROC values
  reported,           \* relation -> mean printed by the reporting cell
  in_pos, in_neg, link_labels   \* get_link_labels: arguments and result

vars == <<graph, data_loader, w_rels, conv, opt_steps, pc, epoch, step, batch, embed, scored,
          loss_epoch_train, auroc_epoch_train, loss_epoch_val, auroc_epoch_val,
          loss_train_total, auroc_train_total, loss_val_total, auroc_val_total,
          auroc_edge_type, reported, in_pos, in_neg, link_labels>>

\* ----------------------------------------------------------------- helpers
RECURSIVE SumSeq(_)
SumSeq(s) == IF s = <<>> THEN 0 ELSE Head(s) + SumSeq(Tail(s))

Min(a, b) == IF a <= b THEN a ELSE b
Max(a, b) == IF a >= b THEN a ELSE b

SeqsUpTo(S, n) == UNION {[1 .. k -> S] : k \in 0 .. n}

NaN == <<"nan", 0>>
Inf == <<"inf", 1>>
Num(v) == <<"num", v>>
IsFinite(f) == f[1] = "num"

\* numpy.mean of a list of floats
Mean(values) ==
  IF Len(values) = 0 THEN NaN
  ELSE IF \E k \in 1 .. Len(values) : values[k][1] = "nan" THEN NaN
  ELSE IF \E k \in 1 .. Len(values) : values[k][1] = "inf" THEN Inf
  ELSE Num(SumSeq([k \in 1 .. Len(values) |-> values[k][2]]) \div Len(values))

\* --------------------------------------------------------------- the data
Edge(s, o, t, m) == [s |-> s, o |-> o, t |-> t, m |-> m]
EdgeSpace == {Edge(s, o, t, m) : s \in Nodes, o \in Nodes,
                                 t \in 0 .. (MaxRelations - 1), m \in Masks}
Pair(e) == <<e.s, e.o>>
PairLess(a, b) == a.s < b.s \/ (a.s = b.s /\ a.o < b.o)
EdgeTypes(g) == {g[k].t : k \in 1 .. Len(g)}

\* num_relations = edge_type.unique().size(0)
num_relations(g) == Cardinality(EdgeTypes(g))

\* The graphs torch.load can deliver: a non-empty edge list over the nodes,
\* its relation types numbered 0 .. num_relations-1, each edge in one mask,
\* with at least one training and one validation edge.
GraphSet ==
  {g \in SeqsUpTo(EdgeSpace, MaxEdges) :
     /\ Len(g) >= 1
     /\ \A k \in 1 .. (Len(g) - 1) : PairLess(g[k], g[k + 1])
     /\ EdgeTypes(g) = 0 .. (num_relations(g) - 1)
     /\ \E k \in 1 .. Len(g) : g[k].m = "train"
     /\ \E k \in 1 .. Len(g) : g[k].m = "val"}

\* ------------------------------------------------- GraphSAINT random walks
walk_length == 16
batch_size == 128

Succ(g, v) ==
  LET out == {g[k].o : k \in {j \in 1 .. Len(g) : g[j].s = v}}
  IN  IF out = {} THEN {v} ELSE out

\* The (current node, visited nodes) pairs a walk can be in after n more steps.
RECURSIVE Walks(_, _, _)
Walks(g, S, n) ==
  IF n = 0 THEN S
  ELSE Walks(g, UNION {{<<w, c[2] \cup {w}>> : w \in Succ(g, c[1])} : c \in S}, n - 1)

WalkSets(g, v) == {c[2] : c \in Walks(g, {<<v, {v}>>}, walk_length)}

\* The node sets one step of the sampler can return: the union of the walks
\* from at most batch_size start nodes.
SampledNodeSets(g) ==
  {V \in SUBSET Nodes :
     \E starts \in SUBSET Nodes :
        /\ starts # {}
        /\ Cardinality(starts) <= batch_size
        /\ \E pick \in [starts -> SUBSET Nodes] :
              /\ \A v \in starts : pick[v] \in WalkSets(g, v)
              /\ V = UNION {pick[v] : v \in starts}}

\* Position of node v in the sorted node set V (the batch's local node id).
Local(V, v) == Cardinality({u \in V : u < v})

\* The induced subgraph on V, with every edge-level attribute sliced along.
Subgraph(g, V) ==
  LET keep == SelectSeq(g, LAMBDA e : e.s \in V /\ e.o \in V)
  IN  [nodes |-> V,
       edges |-> [k \in 1 .. Len(keep) |->
                    Edge(Local(V, keep[k].s), Local(V, keep[k].o), keep[k].t, keep[k].m)]]

\* data_loader: the batches it can yield
Batches(g) == {Subgraph(g, V) : V \in SampledNodeSets(g)}

\* data.edge_index[:, mask] together with data.edge_type[mask]
Masked(b, m) == SelectSeq(b.edges, LAMBDA e : e.m = m)

\* ------------------------------------------------------ negative sampling
\* torch_geometric.utils.negative_sampling(edge_index, num_neg_samples): the
\* node count is taken from edge_index itself, the samples are cells of the
\* adjacency matrix not in edge_index, and there are at most
\* min(num_neg_samples, N*N - |E|) of them.  Releases differ in whether a
\* rejected candidate is redrawn or dropped, so any count up to that is a
\* possible result.
\* One sample fewer than there are positive edges.
NumNegRequestedLess(pos) == Max(0, Len(pos) - 1)

\* num_neg_samples=edge_index_pos.size(1)
NumNegRequested(pos) == Len(pos)

negative_sampling(pos, num_neg_samples) ==
  IF Len(pos) = 0 THEN {<<>>}
  ELSE LET n    == 1 + CHOOSE v \in Nodes :
                         /\ \E k \in 1 .. Len(pos) : v \in {pos[k].s, pos[k].o}
                         /\ \A k \in 1 .. Len(pos) : pos[k].s <= v /\ pos[k].o <= v
           used == {Pair(pos[k]) : k \in 1 .. Len(pos)}
           cand == ((0 .. (n - 1)) \X (0 .. (n - 1))) \ used
           kmax == Max(0, Min(num_neg_samples, n * n - Len(pos)))
       IN  {q \in SeqsUpTo(cand, kmax) : \A i, j \in 1 .. Len(q) : i # j => q[i] # q[j]}

\* ----------------------------------------------------------- the decoder
\* torch.sigmoid in float32: exactly 1.0 from 17 upwards, exactly 0.0 from
\* -104 downwards; in between the logit itself stands for the probability.
Sigmoid(x) == IF x >= 17 THEN 17 ELSE IF x <= -104 THEN -104 ELSE x

NegInf == <<"inf", -1>>

\* log(sigmoid(x)) in hundredths
LogSig(x) ==
  IF x <= -104 THEN NegInf
  ELSE IF x <= -4 THEN Num(100 * x)
  ELSE IF x >= 6 THEN Num(0)
  ELSE Num(CASE x = -3 -> -305 [] x = -2 -> -213 [] x = -1 -> -131
             [] x = 0 -> -69   [] x = 1 -> -31   [] x = 2 -> -13
             [] x = 3 -> -5    [] x = 4 -> -2    [] x = 5 -> -1)

\* log(1 - p) for the probability with clipped logit p
Log1mSig(p) == IF p >= 17 THEN NegInf ELSE LogSig(-p)

\* F.binary_cross_entropy clamps each log term to >= -100
ClampLog(f) == IF f[1] = "inf" THEN Num(-10000) ELSE Num(Max(f[2], -10000))

BceTerm(f) == IF f[1] = "num" THEN Num(-f[2]) ELSE Inf

\* The mean of the log terms without the clamp.
binary_cross_entropy_unclamped(probs, labels) ==
  Mean([k \in 1 .. Len(probs) |->
          BceTerm(IF labels[k] = 1 THEN LogSig(probs[k]) ELSE Log1mSig(probs[k]))])

\* F.binary_cross_entropy(probs, labels), reduction 'mean'
binary_cross_entropy(probs, labels) ==
  Mean([k \in 1 .. Len(probs) |->
          BceTerm(ClampLog(IF labels[k] = 1 THEN LogSig(probs[k])
                                            ELSE Log1mSig(probs[k])))])

\* scores = sum(s * r * o); return sigmoid(scores)
DistMult(emb, edge_index, edge_type, w) ==
  [k \in 1 .. Len(edge_index) |->
     Sigmoid(emb[edge_index[k][1]] * w[edge_type[k]] * emb[edge_index[k][2]])]

get_metrics(w, emb, edge_index, edge_type, labels) ==
  LET probs == DistMult(emb, edge_index, edge_type, w)
  IN  [loss |-> binary_cross_entropy(probs, labels), probs |-> probs, labels |-> labels]

\* The two lengths taken the wrong way round.
get_link_labels_swapped(edge_index_pos_len, edge_index_neg_len) ==
  [k \in 1 .. (edge_index_pos_len + edge_index_neg_len) |->
     IF k <= edge_index_neg_len THEN 1 ELSE 0]

get_link_labels(edge_index_pos_len, edge_index_neg_len) ==
  [k \in 1 .. (edge_index_pos_len + edge_index_neg_len) |->
     IF k <= edge_index_pos_len THEN 1 ELSE 0]

\* sklearn.metrics.roc_auc_score: the share of (positive, negative) pairs
\* ranked correctly, a tie counting one half; it raises ValueError when the
\* labels hold a single class (or nothing at all).
Raise == <<"raise", 0>>

roc_auc_score(labels, probs) ==
  LET P == {k \in 1 .. Len(labels) : labels[k] = 1}
      N == {k \in 1 .. Len(labels) : labels[k] = 0}
      gt == Cardinality({c \in P \X N : probs[c[1]] > probs[c[2]]})
      eq == Cardinality({c \in P \X N : probs[c[1]] = probs[c[2]]})
  IN  IF P = {} \/ N = {} THEN Raise
      ELSE Num((1000 * (2 * gt + eq)) \div (2 * Cardinality(P) * Cardinality(N)))

\* probs[mask], labels[mask]
Take(seq, idx) == [k \in 1 .. Len(idx) |-> seq[idx[k]]]
Where(types, i) ==
  LET sel == SelectSeq([k \in 1 .. Len(types) |-> <<k, types[k]>>], LAMBDA c : c[2] = i)
  IN  [k \in 1 .. Len(sel) |-> sel[k][1]]

\* ------------------------------------------------------------- the model
Rels == 0 .. (num_relations(graph) - 1)

NoBatch == [nodes |-> {}, edges |-> <<>>]
NoAt == <<"none", 0, 0>>
NoEmbed == [vals |-> <<>>, of |-> NoBatch, at |-> NoAt, conv |-> 0]
NoCall == [fn |-> "none", data |-> NoBatch, at |-> NoAt, emb_of |-> NoBatch,
           emb_at |-> NoAt, pos |-> <<>>, neg |-> <<>>, types |-> <<>>,
           labels |-> <<>>, requested |-> 0, evaluated |-> {}]

\* The iteration of the loop the program is in: the cell, the epoch, the batch.
At == <<IF pc \in {"report", "rbatch", "rembedded"} THEN "report" ELSE "train", epoch, step>>

\* An embedding computed once and kept for the later batches.
get_embeddings_cached(b, at) ==
  IF embed.at # NoAt THEN {embed}
  ELSE {[vals |-> v, of |-> b, at |-> at, conv |-> conv] :
          v \in [0 .. (Cardinality(b.nodes) - 1) -> EmbVals]}

\* get_embeddings(batch): the forward pass of the two convolution layers on
\* the batch; its result depends on weights the model does not follow, so
\* any value per node is possible.
get_embeddings(b, at) ==
  {[vals |-> v, of |-> b, at |-> at, conv |-> conv] :
     v \in [0 .. (Cardinality(b.nodes) - 1) -> EmbVals]}

\* A step taken by validation as well.
StepsTakenAlways(fn) == 1

\* The number of optimizer.step() calls a function makes: train ends with
\* loss.backward(); optimizer.step(), validation runs under torch.no_grad()
\* and calls neither.
StepsTaken(fn) == IF fn = "train" THEN 1 ELSE 0

\* Every negative edge given relation 0.
NegTypesZero(types, n_neg) == [k \in 1 .. n_neg |-> 0]

\* edge_type[:edge_index_neg.size(1)]
NegTypes(types, n_neg) == SubSeq(types, 1, Min(n_neg, Len(types)))

Init ==
  /\ graph \in GraphSet
  /\ data_loader = Batches(graph)
  /\ w_rels \in [0 .. (num_relations(graph) - 1) -> WVals]
  /\ conv = 0
  /\ opt_steps = 0
  /\ pc = "loop"
  /\ epoch = 0
  /\ step = 0
  /\ batch = NoBatch
  /\ embed = NoEmbed
  /\ scored = NoCall
  /\ loss_epoch_train = <<>>
  /\ auroc_epoch_train = <<>>
  /\ loss_epoch_val = <<>>
  /\ auroc_epoch_val = <<>>
  /\ loss_train_total = <<>>
  /\ auroc_train_total = <<>>
  /\ loss_val_total = <<>>
  /\ auroc_val_total = <<>>
  /\ auroc_edge_type = <<>>
  /\ reported = <<>>
  /\ in_pos = 0
  /\ in_neg = 0
  /\ link_labels = <<>>

pure == <<in_pos, in_neg, link_labels>>
params == <<w_rels, conv, opt_steps>>

\* The parameters and the optimizer state after function fn: each Adam step
\* moves every parameter, to values the model does not follow.
Update(fn) ==
  IF StepsTaken(fn) = 0 THEN UNCHANGED params
  ELSE /\ w_rels' \in [DOMAIN w_rels -> WVals]
       /\ conv' = conv + StepsTaken(fn)
       /\ opt_steps' = opt_steps + StepsTaken(fn)
epoch_lists == <<loss_epoch_train, auroc_epoch_train, loss_epoch_val, auroc_epoch_val>>
total_lists == <<loss_train_total, auroc_train_total, loss_val_total, auroc_val_total>>

\* for batch in data_loader: optimizer.zero_grad(); model.train()
NextBatch ==
  /\ pc = "loop"
  /\ step < NumSteps
  /\ batch' \in data_loader
  /\ pc' = "batch"
  /\ scored' = NoCall
  /\ UNCHANGED <<graph, data_loader, params, epoch, step, embed, epoch_lists, total_lists,
                 auroc_edge_type, reported, pure>>

\* embed = get_embeddings(batch)
GetEmbeddings ==
  /\ pc = "batch"
  /\ embed' \in get_embeddings(batch, At)
  /\ pc' = "embedded"
  /\ UNCHANGED <<graph, data_loader, params, epoch, step, batch, scored, epoch_lists, total_lists,
                 auroc_edge_type, reported, pure>>

\* The locals of a train or validation call on (data, emb).
Call(fn, data, emb, mask, neg) ==
  LET pos   == Masked(data, mask)
      types == [k \in 1 .. Len(pos) |-> pos[k].t]
  IN  [fn |-> fn, data |-> data, at |-> At, emb_of |-> emb.of, emb_at |-> emb.at,
       pos |-> [k \in 1 .. Len(pos) |-> Pair(pos[k])],
       neg |-> neg,
       types |-> types \o NegTypes(types, Len(neg)),
       labels |-> get_link_labels(Len(pos), Len(neg)),
       requested |-> NumNegRequested(pos),
       evaluated |-> {}]

Metrics(c, emb) == get_metrics(w_rels, emb.vals, c.pos \o c.neg, c.types, c.labels)

\* train(batch, embed)
Train ==
  /\ pc = "embedded"
  /\ \E neg \in negative_sampling(Masked(batch, "train"),
                                  NumNegRequested(Masked(batch, "train"))) :
       LET c     == Call("train", batch, embed, "train", neg)
           m     == Metrics(c, embed)
           auroc == roc_auc_score(m.labels, m.probs)
       IN  /\ scored' = c
           /\ IF auroc = Raise
              THEN /\ pc' = "error"
                   /\ UNCHANGED <<params, epoch_lists>>
              ELSE /\ loss_epoch_train' = Append(loss_epoch_train, m.loss)
                   /\ auroc_epoch_train' = Append(auroc_epoch_train, auroc)
                   /\ Update("train")
                   /\ pc' = "trained"
                   /\ UNCHANGED <<loss_epoch_val, auroc_epoch_val>>
  /\ UNCHANGED <<graph, data_loader, epoch, step, batch, embed, total_lists, auroc_edge_type,
                 reported, pure>>

\* for i in range(num_relations): the per-relation AUROC lists after relations
\* i, i+1, ... have been handled, and whether roc_auc_score raised on the way.
RECURSIVE RelLoop(_, _, _, _)
RelLoop(i, acc, c, m) ==
  IF i >= num_relations(graph) \/ ~acc.ok THEN acc
  ELSE LET mask == Where(c.types, i)
       IN  IF Len(mask) = 0 THEN RelLoop(i + 1, acc, c, m)
           ELSE LET a == roc_auc_score(Take(m.labels, mask), Take(m.probs, mask))
                IN  RelLoop(i + 1,
                      [aet  |-> IF a = Raise THEN acc.aet
                                ELSE [acc.aet EXCEPT ![i] = Append(@, a)],
                       ok   |-> a # Raise,
                       seen |-> acc.seen \cup {i}], c, m)

\* validation(batch, embed, evaluate_rel)
Validation(evaluate_rel, back) ==
  /\ \E neg \in negative_sampling(Masked(batch, "val"),
                                  NumNegRequested(Masked(batch, "val"))) :
       LET c     == Call("validation", batch, embed, "val", neg)
           m     == Metrics(c, embed)
           auroc == roc_auc_score(m.labels, m.probs)
           r     == RelLoop(0, [aet |-> auroc_edge_type, ok |-> TRUE, seen |-> {}], c, m)
       IN  IF auroc = Raise
           THEN /\ scored' = c
                /\ pc' = "error"
                /\ UNCHANGED <<params, step, loss_epoch_val, auroc_epoch_val, auroc_edge_type>>
           ELSE /\ Update("validation")
                /\ loss_epoch_val' = Append(loss_epoch_val, m.loss)
                /\ auroc_epoch_val' = Append(auroc_epoch_val, auroc)
                /\ IF ~evaluate_rel
                   THEN /\ scored' = c
                        /\ pc' = back
                        /\ step' = step + 1
                        /\ UNCHANGED auroc_edge_type
                   ELSE /\ scored' = [c EXCEPT !.evaluated = r.seen]
                        /\ auroc_edge_type' = r.aet
                        /\ pc' = IF r.ok THEN back ELSE "error"
                        /\ step' = IF r.ok THEN step + 1 ELSE step
  /\ UNCHANGED <<graph, data_loader, epoch, batch, embed, loss_epoch_train,
                 auroc_epoch_train, total_lists, reported, pure>>

\* model.eval(); validation(batch, embed)
Validate ==
  /\ pc = "trained"
  /\ Validation(FALSE, "loop")

\* The end of an epoch: the four means are appended, and either the next
\* epoch starts with fresh lists or the reporting cell starts.
EndEpoch ==
  /\ pc = "loop"
  /\ step = NumSteps
  /\ loss_train_total' = Append(loss_train_total, Mean(loss_epoch_train))
  /\ auroc_train_total' = Append(auroc_train_total, Mean(auroc_epoch_train))
  /\ loss_val_total' = Append(loss_val_total, Mean(loss_epoch_val))
  /\ auroc_val_total' = Append(auroc_val_total, Mean(auroc_epoch_val))
  /\ step' = 0
  /\ epoch' = epoch + 1
  /\ IF epoch + 1 < Epochs
     THEN /\ loss_epoch_train' = <<>>
          /\ auroc_epoch_train' = <<>>
          /\ loss_epoch_val' = <<>>
          /\ auroc_epoch_val' = <<>>
          /\ pc' = "loop"
          /\ UNCHANGED auroc_edge_type
     ELSE /\ auroc_edge_type' = [r \in Rels |-> <<>>]
          /\ pc' = "report"
          /\ UNCHANGED epoch_lists
  /\ scored' = NoCall
  /\ UNCHANGED <<graph, data_loader, params, batch, embed, reported, pure>>

\* The reporting cell: for batch in data_loader
ReportNextBatch ==
  /\ pc = "report"
  /\ step < NumSteps
  /\ batch' \in data_loader
  /\ pc' = "rbatch"
  /\ scored' = NoCall
  /\ UNCHANGED <<graph, data_loader, params, epoch, step, embed, epoch_lists, total_lists,
                 auroc_edge_type, reported, pure>>

ReportGetEmbeddings ==
  /\ pc = "rbatch"
  /\ embed' \in get_embeddings(batch, At)
  /\ pc' = "rembedded"
  /\ UNCHANGED <<graph, data_loader, params, epoch, step, batch, scored, epoch_lists, total_lists,
                 auroc_edge_type, reported, pure>>

\* validation(batch, embed, evaluate_rel=True)
ReportValidate ==
  /\ pc = "rembedded"
  /\ Validation(TRUE, "report")

\* for rel, values in auroc_edge_type.items(): print(np.mean(values))
ReportPrint ==
  /\ pc = "report"
  /\ step = NumSteps
  /\ reported' = [r \in Rels |-> Mean(auroc_edge_type[r])]
  /\ pc' = "done"
  /\ scored' = NoCall
  /\ UNCHANGED <<graph, data_loader, params, epoch, step, batch, embed, epoch_lists,
                 total_lists, auroc_edge_type, pure>>

Next ==
  \/ NextBatch
  \/ GetEmbeddings
  \/ Train
  \/ Validate
  \/ EndEpoch
  \/ ReportNextBatch
  \/ ReportGetEmbeddings
  \/ ReportValidate
  \/ ReportPrint

Spec == Init /\ [][Next]_vars

\* ----------------------------------------- get_link_labels on its own
InitLabels ==
  /\ graph = <<>>
  /\ data_loader = {}
  /\ w_rels = <<>>
  /\ conv = 0
  /\ opt_steps = 0
  /\ pc = "labels"
  /\ epoch = 0
  /\ step = 0
  /\ batch = NoBatch
  /\ embed = NoEmbed
  /\ scored = NoCall
  /\ loss_epoch_train = <<>>
  /\ auroc_epoch_train = <<>>
  /\ loss_epoch_val = <<>>
  /\ auroc_epoch_val = <<>>
  /\ loss_train_total = <<>>
  /\ auroc_train_total = <<>>
  /\ loss_val_total = <<>>
  /\ auroc_val_total = <<>>
  /\ auroc_edge_type = <<>>
  /\ reported = <<>>
  /\ in_pos \in 0 .. MaxLen
  /\ in_neg \in 0 .. MaxLen
  /\ link_labels = <<>>

GetLinkLabels ==
  /\ pc = "labels"
  /\ link_labels' = get_link_labels(in_pos, in_neg)
  /\ pc' = "labelled"
  /\ UNCHANGED <<graph, data_loader, params, epoch, step, batch, embed, scored, epoch_lists,
                 total_lists, auroc_edge_type, reported, in_pos, in_neg>>

SpecLabels == InitLabels /\ [][GetLinkLabels]_vars

\* ------------------------------------------------------------ the claims
Called == scored.fn # "none"
NPos == Len(scored.pos)
NNeg == Len(scored.neg)
Ones(labels) == Cardinality({k \in 1 .. Len(labels) : labels[k] = 1})
RangeOf(seq) == {seq[k] : k \in 1 .. Len(seq)}
InUnit(f) == f[1] = "num" /\ 0 <= f[2] /\ f[2] <= 1000
FiniteNonNeg(f) == IsFinite(f) /\ f[2] >= 0
\* The edges of relation i among those scored, by label.
PosOf(i) == {k \in 1 .. Len(scored.types) : scored.types[k] = i /\ scored.labels[k] = 1}
NegOf(i) == {k \in 1 .. Len(scored.types) : scored.types[k] = i /\ scored.labels[k] = 0}
ReportPcs == {"report", "rbatch", "rembedded", "done"}

\* C1: get_link_labels(n_pos, n_neg) has length n_pos + n_neg, ones at the
\* first n_pos places and zeros at the rest, so exactly n_pos ones.
C1_LinkLabels ==
  pc = "labelled" =>
    /\ Len(link_labels) = in_pos + in_neg
    /\ \A k \in 1 .. Len(link_labels) : link_labels[k] = (IF k <= in_pos THEN 1 ELSE 0)
    /\ Ones(link_labels) = in_pos

C1_Witness == pc = "labelled" /\ in_pos = 2 /\ in_neg = 3 /\ link_labels = <<1, 1, 0, 0, 0>>

C3_EqualCounts == Called => NNeg = NPos

\* C3, amended: every call asks for as many negative edges as it has positive
\* ones and scores at most that many, with one label and one relation each.
C3_AtMostAsMany ==
  Called =>
    /\ scored.requested = NPos
    /\ NNeg <= NPos
    /\ Len(scored.labels) = NPos + NNeg
    /\ Len(scored.types) = NPos + NNeg

C3_Witness == pc = "trained" /\ scored.fn = "train" /\ NNeg >= 1 /\ NNeg < NPos

\* C4: no negative edge of a call is an edge of the batch, whatever its mask.
C4_NegativesAreNonEdges ==
  Called => \A k \in 1 .. NNeg :
              scored.neg[k] \notin {Pair(e) : e \in RangeOf(scored.data.edges)}

\* C5: validation leaves the parameters and the optimizer state alone, each
\* train call makes exactly one update, and the reporting cell runs with the
\* Epochs * NumSteps updates of the training cell.
C5_OnlyTrainUpdates ==
  [][/\ (pc # "embedded" => params' = params)
     /\ (pc' = "trained" => opt_steps' = opt_steps + 1 /\ conv' = conv + 1)
     /\ (pc' \in ReportPcs => opt_steps' = Epochs * NumSteps /\ conv' = Epochs * NumSteps)]_vars

C5_Witness ==
  /\ pc = "done"
  /\ opt_steps = Epochs * NumSteps
  /\ Len(loss_epoch_val) = 2 * NumSteps

\* C6: every validation call is given the whole graph.
C6_ValidationOnWholeGraph ==
  scored.fn = "validation" => scored.data = Subgraph(graph, Nodes)

\* C7: in every iteration the embedding is computed from the current batch
\* before anything is scored, and each call scores with that embedding.
C7_FreshEmbedding ==
  /\ pc \in {"embedded", "trained", "rembedded"} => embed.at = At /\ embed.of = batch
  /\ Called => /\ scored.emb_at = scored.at
               /\ scored.emb_of = scored.data
               /\ scored.emb_at = embed.at
               /\ scored.data = batch

C7_Witness ==
  /\ pc = "report"
  /\ scored.fn = "validation"
  /\ scored.at = <<"report", Epochs, NumSteps - 1>>
  /\ scored.emb_at = scored.at

C9_LossFiniteNonNeg ==
  \A f \in RangeOf(loss_epoch_train) \cup RangeOf(loss_epoch_val)
           \cup RangeOf(loss_train_total) \cup RangeOf(loss_val_total) : FiniteNonNeg(f)

\* A recorded loss in which a log term met the clamp.
C9_Witness ==
  /\ Len(loss_train_total) = Epochs
  /\ Len(loss_val_total) = Epochs
  /\ \E f \in RangeOf(loss_epoch_train) : f[2] >= 2500
  /\ \E f \in RangeOf(loss_epoch_val) : f[2] >= 2500

\* C10: with no more negative than positive edges, every relation validation
\* evaluates has a positive edge and at most as many negative as positive
\* ones; with equally many, it has as many negative as positive ones.
C10_SliceClasses ==
  (scored.fn = "validation" /\ NNeg <= NPos) =>
    \A i \in scored.evaluated :
      /\ Cardinality(PosOf(i)) >= 1
      /\ Cardinality(NegOf(i)) <= Cardinality(PosOf(i))
      /\ NNeg = NPos => /\ Cardinality(NegOf(i)) = Cardinality(PosOf(i))
                        /\ NegOf(i) # {}

C10_Witness ==
  /\ scored.fn = "validation"
  /\ pc = "report"
  /\ NNeg >= 1
  /\ NNeg < NPos
  /\ scored.evaluated # {}

====
